---- MODULE Spec2Model ----
(***************************************************************************)
(* The Creator Station.  Four machines share the module, each with its     *)
(* own specification; the variables of the others stay at rest.            *)
(*                                                                         *)
(* Spec, SpecFair, SpecTwice: one POST /api/render-video request, from the *)
(* multer upload through renderMp4 (src/src/render.js) to the handler's    *)
(* response.  The state is the request's inputs, the position inside       *)
(* renderMp4, the file system (uploads and the temporary directory), the   *)
(* log of subprocess events, and the outcome.  SpecFair adds the event     *)
(* loop's fairness, SpecTwice a second call with the same arguments.       *)
(*                                                                         *)
(* SpecConc: several renderMp4 calls interleaved at their awaits, reduced  *)
(* to the directories and files each one touches.                          *)
(*                                                                         *)
(* SpecExport: the render request as the client's exportMp4 builds it from *)
(* analysis.scenes, followed by the same renderMp4 machine.                *)
(*                                                                         *)
(* SpecClient: the client's generateAllImages loop with a clock.           *)
(*                                                                         *)
(* SpecAnalyze: one POST /api/analyze-script request through analyzeScript *)
(* with the model's answer as an input.                                    *)
(*                                                                         *)
(* Durations are whole seconds.  File names are sequences of character     *)
(* codes, so that the order String.prototype.localeCompare gives and the   *)
(* byte order are two different computed orders.                           *)
(***************************************************************************)
EXTENDS Integers, Sequences, FiniteSets, TLC

\* ------------------------------------------------------------------ bounds
\* Longest scene list a manifest of the model holds.
MaxScenes == 2
\* Most audio files one request of the model uploads.
MaxAudios == 2

\* ------------------------------------------------------- program constants
\* z.number().min(1).max(60)
MinDurationSec == 1
MaxDurationSec == 60

\* --------------------------------------------------------------- file names
\* "a1" and "B0": localeCompare puts "a1" first, byte order puts "B0" first.
NameA1 == <<97, 49>>
NameB0 == <<66, 48>>
UploadNames == {NameA1, NameB0}

Min(S) == CHOOSE x \in S : \A y \in S : x <= y

\* Three-way lexicographic comparison of two sequences of integers, from
\* position k on: -1, 0 or 1.  A proper prefix comes first.
RECURSIVE LexCompare(_, _, _)
LexCompare(a, b, k) ==
    IF k > Len(a) /\ k > Len(b) THEN 0
    ELSE IF k > Len(a) THEN -1
    ELSE IF k > Len(b) THEN 1
    ELSE IF a[k] < b[k] THEN -1
    ELSE IF a[k] > b[k] THEN 1
    ELSE LexCompare(a, b, k + 1)

\* Byte-wise (code unit) order of two names.
ByteCompare(a, b) == LexCompare(a, b, 1)

\* The collation localeCompare uses (ICU root / en): the primary weight of a
\* character ignores case, digits come before letters; the tertiary weight
\* puts lower case before upper case.  Primary differences anywhere in the
\* strings decide before any tertiary difference.
PrimaryWeight(c) ==
    IF c \in 48..57 THEN c - 48
    ELSE IF c \in 65..90 THEN 10 + (c - 65)
    ELSE IF c \in 97..122 THEN 10 + (c - 97)
    ELSE 0

TertiaryWeight(c) == IF c \in 65..90 THEN 1 ELSE 0

localeCompare(a, b) ==
    LET pa == [k \in 1..Len(a) |-> PrimaryWeight(a[k])]
        pb == [k \in 1..Len(b) |-> PrimaryWeight(b[k])]
        ta == [k \in 1..Len(a) |-> TertiaryWeight(a[k])]
        tb == [k \in 1..Len(b) |-> TertiaryWeight(b[k])]
        p  == LexCompare(pa, pb, 1)
    IN  IF p # 0 THEN p ELSE LexCompare(ta, tb, 1)

\* A comparator that orders names by their bytes instead of by collation.
compareByBytes(a, b) == ByteCompare(a.originalname, b.originalname)

\* (a,b) => a.originalname.localeCompare(b.originalname)
compareOriginalname(a, b) == localeCompare(a.originalname, b.originalname)

\* An insertion that puts an element before the elements comparing equal to
\* it: a sort that is not stable.
InsertBeforeEquals(f, s) ==
    LET ge == {k \in 1..Len(s) : compareOriginalname(s[k], f) >= 0}
        p  == IF ge = {} THEN Len(s) + 1 ELSE Min(ge)
    IN  SubSeq(s, 1, p - 1) \o <<f>> \o SubSeq(s, p, Len(s))

\* Array.prototype.sort is stable: an element goes right before the first
\* element that compares greater than it, after every element comparing
\* equal that arrived earlier.
InsertStable(f, s) ==
    LET gt == {k \in 1..Len(s) : compareOriginalname(s[k], f) > 0}
        p  == IF gt = {} THEN Len(s) + 1 ELSE Min(gt)
    IN  SubSeq(s, 1, p - 1) \o <<f>> \o SubSeq(s, p, Len(s))

RECURSIVE sortFiles(_)
sortFiles(s) ==
    IF s = <<>> THEN <<>>
    ELSE InsertStable(s[Len(s)], sortFiles(SubSeq(s, 1, Len(s) - 1)))

\* -------------------------------------------------------------------- paths
Path(dir, role, idx) == [dir |-> dir, role |-> role, idx |-> idx]

\* null (no audio for the scene)
NoPath == Path("none", "none", 0)

\* multer({ dest: '/tmp/uploads' }): one fresh path per uploaded file.
UploadPath(role, k) == Path("uploads", role, k)

\* fs.mkdtempSync(path.join(os.tmpdir(), 'creator-station-'))
TmpRoot == Path("tmp", "root", 0)
ImgDir == Path("tmp", "imgs", 0)
AudDir == Path("tmp", "aud", 0)
\* path.join(tmp, `seg_${String(i).padStart(3,'0')}.mp4`)
SegPath(i) == Path("tmp", "seg", i)
ListFile == Path("tmp", "list", 0)
OutFile == Path("tmp", "output", 0)

\* The files multer saved for one field, in arrival order.
Uploaded(role, names) ==
    [k \in 1..Len(names) |-> [originalname |-> names[k], path |-> UploadPath(role, k)]]

SeqsUpTo(S, n) == UNION {[1..k -> S] : k \in 0..n}

\* ----------------------------------------------------------------- manifest
\* The manifest field of the request body, as the JSON text decodes:
\* shape "notjson" is text JSON.parse throws on, "notobject" a JSON value that
\* is no object, "noscenes" an object without scenes, "scenesnotarray" an
\* object whose scenes is no array, "object" an object with a scenes array.
\* A scene's duration_sec is a number (durType "number") or anything else
\* (absent, a string, null); its hasAudio is absent, true, false or anything
\* else.
RawScene(t, d, h) == [durType |-> t, duration_sec |-> d, hasAudio |-> h]

RawManifest(shape, scenes) == [shape |-> shape, scenes |-> scenes]

MalformedManifests ==
    {RawManifest(s, <<>>) : s \in {"notjson", "notobject", "noscenes", "scenesnotarray"}}

\* Every duration around both limits with every accepted kind of hasAudio,
\* a duration that is no number, and a hasAudio that is no boolean.
AllRawScenes ==
    {RawScene("number", d, h) :
        d \in {MinDurationSec - 1, MinDurationSec, MaxDurationSec, MaxDurationSec + 1},
        h \in {"absent", "true", "false"}}
    \cup {RawScene("other", 0, "absent"), RawScene("number", MinDurationSec, "other")}

\* The scenes the pipeline runs are driven with: a short scene flagged
\* silent and a long scene flagged as having audio.
PipelineRawScenes ==
    {RawScene("number", MinDurationSec, "false"),
     RawScene("number", MaxDurationSec, "true")}

\* A duration check one second too wide at the top.
DurationOkWide(e) ==
    /\ e.durType = "number"
    /\ e.duration_sec >= MinDurationSec
    /\ e.duration_sec <= MaxDurationSec + 1

\* z.number().min(1).max(60)
DurationOk(e) ==
    /\ e.durType = "number"
    /\ e.duration_sec >= MinDurationSec
    /\ e.duration_sec <= MaxDurationSec

\* z.boolean().optional().default(false)
HasAudioOk(e) == e.hasAudio \in {"absent", "true", "false"}

\* z.object({ duration_sec: ..., hasAudio: ... })
SceneSchemaOk(e) == DurationOk(e) /\ HasAudioOk(e)

\* A schema without .min(1) on the scenes array.
ManifestSchemaOkAllowEmpty(j) ==
    /\ j.shape = "object"
    /\ \A k \in 1..Len(j.scenes) : SceneSchemaOk(j.scenes[k])

\* Manifest.parse(JSON.parse(manifestJson)) does not throw.
ManifestSchemaOk(j) ==
    /\ j.shape = "object"
    /\ Len(j.scenes) >= 1
    /\ \A k \in 1..Len(j.scenes) : SceneSchemaOk(j.scenes[k])

\* What Manifest.parse returns: hasAudio defaults to false.
ManifestParse(j) ==
    [scenes |-> [k \in 1..Len(j.scenes) |->
        [duration_sec |-> j.scenes[k].duration_sec,
         hasAudio |-> (j.scenes[k].hasAudio = "true")]]]

EmptyManifest == [scenes |-> <<>>]

\* -------------------------------------------------------- JavaScript values
\* A value is an integer number, a number with a fractional part (n and a
\* half), NaN, null, undefined, a string that reads as the number n, or a
\* string that reads as no number.
JsNumber(n) == [t |-> "number", n |-> n]
JsFraction(n) == [t |-> "fraction", n |-> n]
JsNaN == [t |-> "NaN", n |-> 0]
JsNull == [t |-> "null", n |-> 0]
JsUndefined == [t |-> "undefined", n |-> 0]
JsString(n) == [t |-> "string", n |-> n]
JsText == [t |-> "text", n |-> 0]

\* a || b picks b when a is falsy: undefined, null, NaN and 0 are falsy.
Truthy(v) == (v.t = "number" /\ v.n # 0) \/ v.t \in {"fraction", "string", "text"}
OrElse(a, b) == IF Truthy(a) THEN a ELSE b

\* a ?? b picks b only when a is null or undefined.
Coalesce(a, b) == IF a.t \in {"null", "undefined"} THEN b ELSE a

\* Number(v): null is 0, a numeric string is its number, undefined and any
\* other string are NaN.
ToNumber(v) ==
    CASE v.t \in {"number", "fraction"} -> v
      [] v.t = "null" -> JsNumber(0)
      [] v.t = "string" -> JsNumber(v.n)
      [] OTHER -> JsNaN

\* Twice the value of a number.
Halves(v) == IF v.t = "fraction" THEN 2 * v.n + 1 ELSE 2 * v.n

\* Math.min and Math.max give NaN as soon as one argument is NaN.
MathMin(a, b) ==
    IF a.t = "NaN" \/ b.t = "NaN" THEN JsNaN
    ELSE IF Halves(a) <= Halves(b) THEN a ELSE b

MathMax(a, b) ==
    IF a.t = "NaN" \/ b.t = "NaN" THEN JsNaN
    ELSE IF Halves(a) >= Halves(b) THEN a ELSE b

\* function clamp(n, a, b){ return Math.max(a, Math.min(b, n)); }
clamp(n, a, b) == MathMax(a, MathMin(b, n))

\* -------------------------------------------------------------------- state
VARIABLES
    manifestJson,   \* req.body.manifest, as it decodes
    files,          \* req.files: images and audios in arrival order
    pc,             \* position inside the handler and renderMp4
    manifest,       \* const manifest (once parsed)
    tmpAllocated,   \* mkdtempSync has returned: const tmp is bound
    fsys,           \* the paths that exist: uploads and the temporary tree
    images,         \* const images (sorted)
    audios,         \* const audios (sorted)
    i,              \* the loop variable of the scene loop
    segmentFiles,   \* const segmentFiles
    listContents,   \* the segment paths list.txt names, in file order
    events,         \* history: every subprocess spawn and exit, in order
    result,         \* how the renderMp4 promise settled
    cleanupRuns,    \* history: how often the cleanup block was entered
    responses,      \* history: the responses the handler sent
    stderr,         \* let stderr of the run() whose child failed
    prev,           \* history: the subprocess events of an earlier call
    analysis,       \* the client's analysis.scenes the request is built from
    cleanupLog      \* history: the fs calls of the cleanup block, with outcome

\* Two renderMp4 calls side by side (workspace isolation).
VARIABLES
    reqs,           \* per request: its position, its tmp, its upload
    owner,          \* per directory or upload on disk: the request it was made for
    accesses        \* history: every file access, with the owner at that time

\* The client's generateAllImages.
VARIABLES
    cpc,            \* position inside generateAllImages
    ci,             \* its loop variable i
    now,            \* the clock, in seconds
    wakeAt,         \* when the pending sleep() timer is due
    sent,           \* history: the times the requests were sent
    answered,       \* history: the times the requests completed
    prompts         \* per scene: whether image_prompt.trim() is non-empty

renderVars == <<manifestJson, files, pc, manifest, tmpAllocated, fsys, images, audios,
                i, segmentFiles, listContents, events, result, cleanupRuns, responses,
                stderr, prev, analysis, cleanupLog>>

concVars == <<reqs, owner, accesses>>

clientVars == <<cpc, ci, now, wakeAt, sent, answered, prompts>>

\* POST /api/analyze-script and analyzeScript
VARIABLES
    body,               \* req.body: the script's length and timingRuleSeconds
    apc,                \* position inside the handler and analyzeScript
    timingRuleSeconds,  \* const timingRuleSeconds (once the body is parsed)
    modelText,          \* what the model answered, as its text decodes
    data,               \* const data, as analyzeScript returns it
    areply              \* what the handler sent

analyzeVars == <<body, apc, timingRuleSeconds, modelText, data, areply>>

vars == <<renderVars, concVars, clientVars, analyzeVars>>

\* The exit codes a subprocess of the model ends with.
ExitCodes == {0, 1}

\* An exit check that takes every exit code for success.
ExitOkAny(code) == code \in ExitCodes

\* code === 0
ExitOk(code) == code = 0

NoErr == [step |-> "none", scene |-> -1, code |-> 0]
Err(step, scene, code) == [step |-> step, scene |-> scene, code |-> code]

Pending == [kind |-> "pending", err |-> NoErr]
Bytes == [kind |-> "bytes", err |-> NoErr]
Rejected(e) == [kind |-> "error", err |-> e]

\* One subprocess event.  A spawn carries the arguments: the image and audio
\* inputs, -t, whether -shortest is given, the output path and, for the
\* concat, the contents of the list file.  An exit carries the exit code.
SpawnEncodeEv(scene, img, audio, dur) ==
    [ev |-> "spawn", kind |-> "encode", scene |-> scene, img |-> img,
     audio |-> audio, dur |-> dur, shortest |-> (audio # NoPath),
     out |-> SegPath(scene), list |-> <<>>, code |-> 0]

SpawnConcatEv(list) ==
    [ev |-> "spawn", kind |-> "concat", scene |-> -1, img |-> NoPath,
     audio |-> NoPath, dur |-> 0, shortest |-> FALSE,
     out |-> OutFile, list |-> list, code |-> 0]

ExitEv(kind, scene, code) ==
    [ev |-> "exit", kind |-> kind, scene |-> scene, img |-> NoPath,
     audio |-> NoPath, dur |-> 0, shortest |-> FALSE,
     out |-> NoPath, list |-> <<>>, code |-> code]

\* The child's 'error' event: it could not be spawned.
ErrorEv(kind, scene) ==
    [ev |-> "error", kind |-> kind, scene |-> scene, img |-> NoPath,
     audio |-> NoPath, dur |-> 0, shortest |-> FALSE,
     out |-> NoPath, list |-> <<>>, code |-> 0]

\* What run() has accumulated in stderr when the child closes: a diagnostic
\* note of ffmpeg and the file names of its arguments, which ffmpeg prints
\* in its banner and in its diagnostics.
NoStderr == [note |-> "", names |-> {}]

StderrNotes == {"No such file or directory", "Invalid data found when processing input"}

ChildStderr(note, spawn) ==
    [note |-> note,
     names |-> ({spawn.img, spawn.audio, spawn.out} \ {NoPath})
                   \cup (IF spawn.kind = "concat" THEN {ListFile} ELSE {})]

\* e.message: `ffmpeg failed (${code}): ${stderr}` for a failed subprocess,
\* the message of the thrown error otherwise.
NoMessage == [head |-> "", code |-> 0, stderr |-> NoStderr]

Message(e, text) ==
    IF e.step \in {"encode", "concat"}
    THEN [head |-> "ffmpeg failed", code |-> e.code, stderr |-> text]
    ELSE [head |-> e.step, code |-> 0, stderr |-> NoStderr]

\* const [analysis, setAnalysis] = useState(null): no analysis yet, or the
\* request was not built by the client.
NoAnalysis == [present |-> FALSE, scenes |-> <<>>, timingRuleSeconds |-> 0]

\* No earlier call of renderMp4 with these arguments.
NoRun == [ran |-> FALSE, events |-> <<>>, segmentFiles |-> <<>>, result |-> Pending]

UploadPaths(fs) ==
    {fs.images[k].path : k \in 1..Len(fs.images)}
    \cup {fs.audios[k].path : k \in 1..Len(fs.audios)}

\* The playing time, in seconds, of an uploaded audio file: the uploads named
\* "a1" play 10 seconds, every other upload 5 seconds.
AudioSeconds(f) == IF f.originalname = NameA1 THEN 10 ELSE 5

\* The uploaded audio saved at path p.
AudioAt(p) == CHOOSE f \in {files.audios[k] : k \in 1..Len(files.audios)} : f.path = p

\* How long the segment of a spawned encoder plays.  With an audio input the
\* arguments are -loop 1 -i img -i audio -t dur ... -shortest: the looped
\* image never ends, so the output stops at the audio's end or at dur,
\* whichever comes first.  Without one they are -loop 1 -i img -t dur: the
\* output lasts dur.
SegmentSeconds(e) ==
    IF e.shortest THEN Min({e.dur, AudioSeconds(AudioAt(e.audio))}) ELSE e.dur

\* ---------------------------------------------------------------------- Init
\* A request has arrived and multer has saved its files under /tmp/uploads.
\* Two families of requests: the pipeline family (scenes of PipelineRawScenes
\* or a malformed manifest, with every arrival order of up to MaxScenes + 1
\* images and up to MaxAudios audios over UploadNames), and the manifest
\* family (every scene list over AllRawScenes, with 0..MaxScenes + 1 images
\* and at most one audio).
PipelineRequests ==
    {[manifestJson |-> m,
      files |-> [images |-> Uploaded("images", im), audios |-> Uploaded("audios", au)]] :
        m \in MalformedManifests
              \cup {RawManifest("object", s) : s \in SeqsUpTo(PipelineRawScenes, MaxScenes)},
        im \in SeqsUpTo(UploadNames, MaxScenes + 1),
        au \in SeqsUpTo(UploadNames, MaxAudios)}

ManifestRequests ==
    {[manifestJson |-> RawManifest("object", s),
      files |-> [images |-> Uploaded("images", [k \in 1..n |-> NameA1]),
                 audios |-> Uploaded("audios", [k \in 1..a |-> NameA1])]] :
        s \in SeqsUpTo(AllRawScenes, MaxScenes),
        n \in 0..(MaxScenes + 1),
        a \in 0..1}

InitRequest(r) ==
    /\ manifestJson = r.manifestJson
    /\ files = r.files
    /\ pc = "parse"
    /\ manifest = EmptyManifest
    /\ tmpAllocated = FALSE
    /\ fsys = UploadPaths(r.files)
    /\ images = <<>>
    /\ audios = <<>>
    /\ i = 0
    /\ segmentFiles = <<>>
    /\ listContents = <<>>
    /\ events = <<>>
    /\ result = Pending
    /\ cleanupRuns = 0
    /\ responses = <<>>
    /\ stderr = NoStderr
    /\ prev = NoRun
    /\ analysis = NoAnalysis
    /\ cleanupLog = <<>>

\* How many requests run side by side.
MaxRequests == 2

Requests == 1..MaxRequests

\* No request has arrived.
ConcIdle ==
    /\ reqs = [r \in Requests |-> [pc |-> "none", tmp |-> 0, upload |-> 0]]
    /\ owner = [kind \in {"tmp", "upload"} |-> [n \in Requests |-> 0]]
    /\ accesses = {}

\* generateAllImages has not been called.
ClientIdle ==
    /\ cpc = "idle"
    /\ ci = 0
    /\ now = 0
    /\ wakeAt = 0
    /\ sent = <<>>
    /\ answered = <<>>
    /\ prompts = <<>>

\* A request body of the analysis: script is a string of scriptLen characters.
Body(len, timing) == [scriptLen |-> len, timingRuleSeconds |-> timing]

\* The model's answer: text without braces ("nobrace"), text between braces
\* that is no JSON ("badjson"), or a JSON object whose scenes field is
\* absent, no array, or an array.
ModelText(shape, kind, items) == [shape |-> shape, scenes |-> [kind |-> kind, items |-> items]]

NoData == ModelText("none", "absent", <<>>)

NoReply == [status |-> 0, ok |-> FALSE, scenes |-> [kind |-> "absent", items |-> <<>>]]

\* No analysis has been asked for.
AnalyzeIdle ==
    /\ body = Body(0, JsUndefined)
    /\ apc = "idle"
    /\ timingRuleSeconds = 0
    /\ modelText = NoData
    /\ data = NoData
    /\ areply = NoReply

Init ==
    /\ \E r \in PipelineRequests \cup ManifestRequests : InitRequest(r)
    /\ ConcIdle
    /\ AnalyzeIdle
    /\ ClientIdle

\* ------------------------------------------------------------------- actions
\* A throw inside renderMp4: the promise rejects with e; nothing else runs.
Throw(e) ==
    /\ result' = Rejected(e)
    /\ pc' = "settled"

\* const manifest = Manifest.parse(JSON.parse(manifestJson));
ParseManifest ==
    /\ pc = "parse"
    /\ IF ManifestSchemaOk(manifestJson)
       THEN /\ manifest' = ManifestParse(manifestJson)
            /\ pc' = "mktmp"
            /\ UNCHANGED result
       ELSE /\ Throw(Err("manifest", -1, 0))
            /\ UNCHANGED manifest
    /\ UNCHANGED <<manifestJson, files, tmpAllocated, fsys, images, audios, i,
                   segmentFiles, listContents, events, cleanupRuns, responses>>
    /\ UNCHANGED <<stderr, prev, analysis, cleanupLog, concVars, clientVars, analyzeVars>>

\* mkdtempSync, mkdirSync(imgDir), mkdirSync(audDir).  mkdtempSync may throw
\* (no space, no permission), and then nothing was allocated; the two
\* directories inside the fresh directory are then made.
MakeTmp ==
    /\ pc = "mktmp"
    /\ \E made \in BOOLEAN :
        /\ tmpAllocated' = made
        /\ fsys' = IF made THEN fsys \cup {TmpRoot, ImgDir, AudDir} ELSE fsys
        /\ IF made
           THEN pc' = "stage" /\ UNCHANGED result
           ELSE Throw(Err("staging", -1, 0))
    /\ UNCHANGED <<manifestJson, files, manifest, images, audios, i,
                   segmentFiles, listContents, events, cleanupRuns, responses>>
    /\ UNCHANGED <<stderr, prev, analysis, cleanupLog, concVars, clientVars, analyzeVars>>

\* A count check that only refuses too few images.
CountAtLeast(imgs, m) == Len(imgs) >= Len(m.scenes)

\* images.length !== manifest.scenes.length is false
CountMatches(imgs, m) == Len(imgs) = Len(m.scenes)

\* The two sorts, the image count check and const segmentFiles = [].
Stage ==
    /\ pc = "stage"
    /\ images' = sortFiles(files.images)
    /\ audios' = sortFiles(files.audios)
    /\ segmentFiles' = <<>>
    /\ i' = 0
    /\ IF CountMatches(images', manifest)
       THEN pc' = "loop" /\ UNCHANGED result
       ELSE Throw(Err("count", -1, 0))
    /\ UNCHANGED <<manifestJson, files, manifest, tmpAllocated, fsys,
                   listContents, events, cleanupRuns, responses>>
    /\ UNCHANGED <<stderr, prev, analysis, cleanupLog, concVars, clientVars, analyzeVars>>

\* A loop condition that stops one scene early.
LoopStopsEarly(k, m) == k < Len(m.scenes) - 1

\* i < manifest.scenes.length
LoopContinues(k, m) == k < Len(m.scenes)

\* An image lookup that counts from the end of the array.
ImagePathFromEnd(imgs, k) == imgs[Len(imgs) - k].path

\* const imgPath = images[i].path;
ImagePathFor(imgs, k) == imgs[k + 1].path

\* An audio lookup that gives a scene past the last audio the last audio.
AudioFileClamped(auds, k) ==
    IF auds = <<>> THEN NoPath ELSE auds[Min({k + 1, Len(auds)})].path

\* const audioFile = audios[i] ? audios[i].path : null;
AudioFileFor(auds, k) == IF k + 1 \in DOMAIN auds THEN auds[k + 1].path ELSE NoPath

\* One loop iteration up to the await: the arguments are built and ffmpeg is
\* spawned.  images[i].path on a missing element is a TypeError.
SpawnEncode ==
    /\ pc = "loop"
    /\ LoopContinues(i, manifest)
    /\ IF i + 1 \in DOMAIN images
       THEN /\ events' = Append(events,
                    SpawnEncodeEv(i, ImagePathFor(images, i), AudioFileFor(audios, i),
                                  manifest.scenes[i + 1].duration_sec))
            /\ pc' = "encoding"
            /\ UNCHANGED result
       ELSE /\ Throw(Err("fault", i, 0))
            /\ UNCHANGED events
    /\ UNCHANGED <<manifestJson, files, manifest, tmpAllocated, fsys, images, audios,
                   i, segmentFiles, listContents, cleanupRuns, responses>>
    /\ UNCHANGED <<stderr, prev, analysis, cleanupLog, concVars, clientVars, analyzeVars>>

\* A failed encode that goes round the loop again instead of rejecting.
RetryEncode(k, code) == pc' = "loop" /\ UNCHANGED result

\* await run(...) rejected inside the loop: renderMp4 rejects with it.
FailEncode(k, code) == Throw(Err("encode", k, code))

\* The encoder's 'close' event: run resolves or rejects, then
\* segmentFiles.push(seg) and i++.  A failed encoder may leave a partial
\* file.  The stderr of a child that exited 0 is dropped with the call.
EncodeClose ==
    /\ pc = "encoding"
    /\ \E code \in ExitCodes :
        /\ events' = Append(events, ExitEv("encode", i, code))
        /\ IF ExitOk(code)
           THEN /\ fsys' = fsys \cup {SegPath(i)}
                /\ segmentFiles' = Append(segmentFiles, SegPath(i))
                /\ i' = i + 1
                /\ pc' = "loop"
                /\ UNCHANGED <<result, stderr>>
           ELSE /\ \E partial \in BOOLEAN :
                     fsys' = IF partial THEN fsys \cup {SegPath(i)} ELSE fsys
                /\ \E note \in StderrNotes :
                     stderr' = ChildStderr(note, events[Len(events)])
                /\ FailEncode(i, code)
                /\ UNCHANGED <<segmentFiles, i>>
    /\ UNCHANGED <<manifestJson, files, manifest, tmpAllocated, images, audios,
                   listContents, cleanupRuns, responses>>
    /\ UNCHANGED <<prev, analysis, cleanupLog, concVars, clientVars, analyzeVars>>

\* segmentFiles.map(f => `file '...'`).join('\n'): one line per segment, in
\* the order of segmentFiles.
ListLines(segs) == segs

\* After the loop: list.txt is written and the concat is spawned.
SpawnConcat ==
    /\ pc = "loop"
    /\ ~LoopContinues(i, manifest)
    /\ listContents' = ListLines(segmentFiles)
    /\ fsys' = fsys \cup {ListFile}
    /\ events' = Append(events, SpawnConcatEv(listContents'))
    /\ pc' = "concat"
    /\ UNCHANGED <<manifestJson, files, manifest, tmpAllocated, images, audios, i,
                   segmentFiles, result, cleanupRuns, responses>>
    /\ UNCHANGED <<stderr, prev, analysis, cleanupLog, concVars, clientVars, analyzeVars>>

\* The concat's 'close' event.
ConcatClose ==
    /\ pc = "concat"
    /\ \E code \in ExitCodes :
        /\ events' = Append(events, ExitEv("concat", -1, code))
        /\ IF ExitOk(code)
           THEN /\ fsys' = fsys \cup {OutFile}
                /\ pc' = "read"
                /\ UNCHANGED <<result, stderr>>
           ELSE /\ \E partial \in BOOLEAN :
                     fsys' = IF partial THEN fsys \cup {OutFile} ELSE fsys
                /\ \E note \in StderrNotes :
                     stderr' = ChildStderr(note, events[Len(events)])
                /\ Throw(Err("concat", -1, code))
    /\ UNCHANGED <<manifestJson, files, manifest, tmpAllocated, images, audios, i,
                   segmentFiles, listContents, cleanupRuns, responses>>
    /\ UNCHANGED <<prev, analysis, cleanupLog, concVars, clientVars, analyzeVars>>

\* The child's 'error' event (no ffmpeg binary, spawn refused).  run()
\* listens for 'close' only: the event has no listener, the emitter throws
\* it, nothing catches it and the Node process ends.  No 'close' follows, so
\* the promise of run() never settles and the handler never answers.
SpawnError ==
    /\ pc \in {"encoding", "concat"}
    /\ events' = Append(events,
            ErrorEv(events[Len(events)].kind, events[Len(events)].scene))
    /\ pc' = "crashed"
    /\ UNCHANGED <<manifestJson, files, manifest, tmpAllocated, fsys, images, audios,
                   i, segmentFiles, listContents, result, cleanupRuns, responses>>
    /\ UNCHANGED <<stderr, prev, analysis, cleanupLog, concVars, clientVars, analyzeVars>>

\* A cleanup whose catch block passes the error on.
CleanupRethrown(threw) == IF threw THEN Rejected(Err("cleanup", -1, 0)) ELSE Bytes

\* try { ... } catch {} and return buf: whatever the cleanup threw is dropped.
CleanupCaught(threw) == Bytes

\* [...images, ...audios]
CleanupList == images \o audios

\* readFileSync(out), the cleanup block and return buf.  The unlinkSync of
\* the failAt-th file may throw (failAt = 0: none does), which skips the rest
\* of the try block, rmSync included; rmSync may throw too; the catch
\* swallows either.
Finish ==
    /\ pc = "read"
    /\ cleanupRuns' = cleanupRuns + 1
    /\ \E failAt \in 0..Len(CleanupList), rmOk \in BOOLEAN :
        LET unlinked == {CleanupList[k].path :
                            k \in 1..(IF failAt = 0 THEN Len(CleanupList) ELSE failAt - 1)}
            tmpTree == {p \in fsys : p.dir = "tmp"}
        IN  /\ fsys' = IF failAt = 0 /\ rmOk
                       THEN (fsys \ unlinked) \ tmpTree
                       ELSE fsys \ unlinked
            /\ result' = CleanupCaught(failAt # 0 \/ ~rmOk)
            /\ cleanupLog' =
                    [k \in 1..(IF failAt = 0 THEN Len(CleanupList) ELSE failAt) |->
                        [op |-> "unlinkSync", path |-> CleanupList[k].path,
                         ok |-> (k # failAt)]]
                    \o (IF failAt = 0
                        THEN <<[op |-> "rmSync", path |-> TmpRoot, ok |-> rmOk]>>
                        ELSE <<>>)
    /\ pc' = "settled"
    /\ UNCHANGED <<manifestJson, files, manifest, tmpAllocated, images, audios, i,
                   segmentFiles, listContents, events, responses>>
    /\ UNCHANGED <<stderr, prev, analysis, concVars, clientVars, analyzeVars>>

\* The handler after await renderMp4: res.send(buf) with the video headers,
\* or res.status(400).json({ ok: false, error }).
Respond ==
    /\ pc = "settled"
    /\ responses' = Append(responses,
            IF result.kind = "bytes"
            THEN [status |-> 200, type |-> "video/mp4", ok |-> TRUE, err |-> NoErr,
                  error |-> NoMessage, attachment |-> "creator-station.mp4"]
            ELSE [status |-> 400, type |-> "application/json", ok |-> FALSE,
                  err |-> result.err, error |-> Message(result.err, stderr),
                  attachment |-> ""])
    /\ pc' = "responded"
    /\ UNCHANGED <<manifestJson, files, manifest, tmpAllocated, fsys, images, audios,
                   i, segmentFiles, listContents, events, result, cleanupRuns>>
    /\ UNCHANGED <<stderr, prev, analysis, cleanupLog, concVars, clientVars, analyzeVars>>

Next ==
    \/ ParseManifest
    \/ MakeTmp
    \/ Stage
    \/ SpawnEncode
    \/ EncodeClose
    \/ SpawnConcat
    \/ ConcatClose
    \/ SpawnError
    \/ Finish
    \/ Respond

Spec == Init /\ [][Next]_vars

\* ------------------------------------------------------------------ fairness
\* Node runs what is ready: synchronous code, and the continuation of an
\* await whose promise has settled, always run.  At the positions of JsReady
\* the next step is the program's own (ParseManifest, MakeTmp, Stage,
\* SpawnEncode or SpawnConcat, Finish, Respond), one of them is enabled and
\* each changes pc; at the other positions the request waits for a child or
\* has ended.  The 'close' and 'error' events of a child come from outside
\* and are promised by no fairness condition.
JsReady == pc \in {"parse", "mktmp", "stage", "loop", "read", "settled"}

JsAdvance ==
    /\ JsReady
    /\ pc' \in {"mktmp", "stage", "loop", "encoding", "concat", "settled", "responded"}

SpecFair == Spec /\ WF_pc(JsAdvance)

\* ------------------------------------------------ renderMp4 called a second time
\* renderMp4({ files, manifestJson }) is called again with the arguments of
\* the call that has been answered.  files is the same object: its two
\* arrays were sorted in place if the first call got that far, and the
\* uploads are where the first call left them.  The second call makes a
\* directory of its own; what the first left under its directory is out of
\* reach and dropped from fsys.
RunAgain ==
    /\ pc = "responded"
    /\ ~prev.ran
    /\ prev' = [ran |-> TRUE, events |-> events, segmentFiles |-> segmentFiles,
                result |-> result]
    /\ files' = IF result.err.step \in {"manifest", "staging"}
                THEN files
                ELSE [images |-> images, audios |-> audios]
    /\ fsys' = {q \in fsys : q.dir # "tmp"}
    /\ pc' = "parse"
    /\ manifest' = EmptyManifest
    /\ tmpAllocated' = FALSE
    /\ images' = <<>>
    /\ audios' = <<>>
    /\ i' = 0
    /\ segmentFiles' = <<>>
    /\ listContents' = <<>>
    /\ events' = <<>>
    /\ result' = Pending
    /\ cleanupRuns' = 0
    /\ responses' = <<>>
    /\ stderr' = NoStderr
    /\ cleanupLog' = <<>>
    /\ UNCHANGED <<manifestJson, analysis, concVars, clientVars, analyzeVars>>

\* The requests of the pipeline family whose manifest decodes to an object
\* and that bring as many images as scenes.
TwiceRequests ==
    {r \in PipelineRequests :
        /\ r.manifestJson.shape = "object"
        /\ Len(r.files.images) = Len(r.manifestJson.scenes)}

InitTwice ==
    /\ \E r \in TwiceRequests : InitRequest(r)
    /\ ConcIdle
    /\ AnalyzeIdle
    /\ ClientIdle

NextTwice == Next \/ RunAgain

SpecTwice == InitTwice /\ [][NextTwice]_vars

\* ----------------------------------------------------------------- exportMp4
\* The client builds the render request from analysis.scenes and posts it.
\* JSON.stringify writes a number as it is and NaN as null; the server
\* decodes a number or something that is no number.
JsonDuration(v, h) ==
    IF v.t = "number" THEN RawScene("number", v.n, h) ELSE RawScene("other", 0, h)

\* String(i): the decimal digits of i, as character codes.
RECURSIVE Digits(_)
Digits(n) == IF n < 10 THEN <<48 + n>> ELSE Digits(n \div 10) \o <<48 + (n % 10)>>

\* s.padStart(len, c)
PadStart(s, len, c) ==
    IF Len(s) >= len THEN s ELSE [k \in 1..(len - Len(s)) |-> c] \o s

\* "png" and "mp3"
ExtPng == <<112, 110, 103>>
ExtMp3 == <<109, 112, 51>>

\* `scene_${String(i).padStart(3,'0')}.${ext}`
SceneFileName(n, ext) ==
    <<115, 99, 101, 110, 101, 95>> \o PadStart(Digits(n), 3, 48) \o <<46>> \o ext

\* A scene of analysis.scenes: its duration_sec, and whether imageBase64 and
\* audioBase64 are non-empty strings.
ClientScene(d, img, aud) == [duration_sec |-> d, imageBase64 |-> img, audioBase64 |-> aud]

\* const timingRuleSeconds = activePreset.timing: 13, 8, 13 and 13 in the
\* presets.
PresetTimings == {8, 13}

\* The positions of the scenes that have audio, in increasing order.
RECURSIVE AudioScenes(_, _)
AudioScenes(scenes, k) ==
    IF k > Len(scenes) THEN <<>>
    ELSE (IF scenes[k].audioBase64 THEN <<k>> ELSE <<>>) \o AudioScenes(scenes, k + 1)

\* const manifest = { scenes: scenes.map(s => ({ duration_sec:
\* clamp(Number(s.duration_sec||timingRuleSeconds),1,60), hasAudio:
\* !!s.audioBase64 })) }, after JSON.stringify and the server's JSON.parse.
ExportManifest(scenes, timing) ==
    RawManifest("object",
        [k \in 1..Len(scenes) |->
            JsonDuration(clamp(ToNumber(OrElse(scenes[k].duration_sec, JsNumber(timing))),
                               JsNumber(1), JsNumber(60)),
                         IF scenes[k].audioBase64 THEN "true" ELSE "false")])

\* form.append('images', ...) for every scene, form.append('audios', ...)
\* for the scenes that have audio, each named after the scene's position;
\* multer saves them in the order they were appended.
ExportFiles(scenes) ==
    LET withAudio == AudioScenes(scenes, 1)
    IN  [images |-> Uploaded("images",
                        [k \in 1..Len(scenes) |-> SceneFileName(k - 1, ExtPng)]),
         audios |-> Uploaded("audios",
                        [j \in 1..Len(withAudio) |-> SceneFileName(withAudio[j] - 1, ExtMp3)])]

\* exportMp4 up to the arrival of its request at the server: nothing is
\* sent without an analysis or when a scene has no image.
ExportMp4 ==
    /\ pc = "export"
    /\ LET scenes == analysis.scenes
           withImage == SelectSeq(scenes, LAMBDA sc : sc.imageBase64)
       IN  IF ~analysis.present \/ Len(withImage) # Len(scenes)
           THEN /\ pc' = "unsent"
                /\ UNCHANGED <<manifestJson, files, fsys>>
           ELSE /\ manifestJson' = ExportManifest(scenes, analysis.timingRuleSeconds)
                /\ files' = ExportFiles(scenes)
                /\ fsys' = UploadPaths(ExportFiles(scenes))
                /\ pc' = "parse"
    /\ UNCHANGED <<manifest, tmpAllocated, images, audios, i, segmentFiles, listContents,
                   events, result, cleanupRuns, responses>>
    /\ UNCHANGED <<stderr, prev, analysis, cleanupLog, concVars, clientVars, analyzeVars>>

\* The durations a scene of the client holds: none, null, NaN, zero, a
\* negative one, one inside the limits, the upper limit and one above it.
ClientDurations ==
    {JsUndefined, JsNull, JsNaN, JsNumber(0), JsNumber(-3), JsNumber(5),
     JsNumber(MaxDurationSec), JsNumber(MaxDurationSec + 1)}

\* Two families of analyses: every combination of scenes with and without
\* image and audio, and every combination of durations and preset timings
\* for scenes that have their image.
MediaAnalyses ==
    {[present |-> TRUE, scenes |-> sc, timingRuleSeconds |-> 13] :
        sc \in SeqsUpTo({ClientScene(JsNumber(5), im, au) : im \in BOOLEAN, au \in BOOLEAN},
                        MaxScenes)}

DurationAnalyses ==
    {[present |-> TRUE, scenes |-> sc, timingRuleSeconds |-> t] :
        sc \in SeqsUpTo({ClientScene(d, TRUE, FALSE) : d \in ClientDurations}, MaxScenes),
        t \in PresetTimings}

InitExport ==
    /\ analysis \in {NoAnalysis} \cup MediaAnalyses \cup DurationAnalyses
    /\ pc = "export"
    /\ manifestJson = RawManifest("object", <<>>)
    /\ files = [images |-> <<>>, audios |-> <<>>]
    /\ fsys = {}
    /\ manifest = EmptyManifest
    /\ tmpAllocated = FALSE
    /\ images = <<>>
    /\ audios = <<>>
    /\ i = 0
    /\ segmentFiles = <<>>
    /\ listContents = <<>>
    /\ events = <<>>
    /\ result = Pending
    /\ cleanupRuns = 0
    /\ responses = <<>>
    /\ stderr = NoStderr
    /\ prev = NoRun
    /\ cleanupLog = <<>>
    /\ ConcIdle
    /\ AnalyzeIdle
    /\ ClientIdle

NextExport == ExportMp4 \/ Next

SpecExport == InitExport /\ [][NextExport]_vars

\* ------------------------------------------------- renderMp4 calls side by side
\* MaxRequests requests of one scene each, interleaved at their awaits.  Only
\* what decides which files a call touches is kept: the upload path multer
\* chose, the directory mkdtempSync made, and every access to a file under
\* either, recorded with the request the directory or upload belonged to at
\* that moment.

\* The render machine at rest, while another machine of the module runs.
RenderIdle ==
    InitRequest([manifestJson |-> RawManifest("object", <<>>),
                 files |-> [images |-> <<>>, audios |-> <<>>]])

Access(r, kind, name, file, op, own) ==
    [req |-> r, kind |-> kind, name |-> name, file |-> file, op |-> op, owner |-> own]

\* multer saves the upload under a random name nothing on disk has.
ReqArrive(r) ==
    /\ reqs[r].pc = "none"
    /\ \E u \in {n \in Requests : owner["upload"][n] = 0} :
        /\ reqs' = [reqs EXCEPT ![r] = [pc |-> "arrived", tmp |-> 0, upload |-> u]]
        /\ owner' = [owner EXCEPT !["upload"][u] = r]
        /\ accesses' = accesses \cup {Access(r, "upload", u, "file", "write", r)}
    /\ UNCHANGED <<renderVars, clientVars, analyzeVars>>

\* A workspace at one fixed path for every request.
SharedDirs(ow) == {1}

\* fs.mkdtempSync(path.join(os.tmpdir(), 'creator-station-')): the directory
\* it makes did not exist.
FreshDirs(ow) == {d \in Requests : ow[d] = 0}

\* mkdtempSync and the two mkdirSync.
ReqMkdtemp(r) ==
    /\ reqs[r].pc = "arrived"
    /\ \E d \in FreshDirs(owner["tmp"]) :
        /\ reqs' = [reqs EXCEPT ![r].pc = "open", ![r].tmp = d]
        /\ owner' = [owner EXCEPT !["tmp"][d] = r]
        /\ accesses' = accesses \cup {Access(r, "tmp", d, f, "mkdir", r) :
                                            f \in {"", "imgs", "aud"}}
    /\ UNCHANGED <<renderVars, clientVars, analyzeVars>>

\* The encoder of the scene: it reads the uploaded image and writes the
\* segment under the request's tmp.
ReqEncode(r) ==
    /\ reqs[r].pc = "open"
    /\ reqs' = [reqs EXCEPT ![r].pc = "encoded"]
    /\ accesses' = accesses \cup
            {Access(r, "upload", reqs[r].upload, "file", "read",
                    owner["upload"][reqs[r].upload]),
             Access(r, "tmp", reqs[r].tmp, "seg_000.mp4", "write",
                    owner["tmp"][reqs[r].tmp])}
    /\ UNCHANGED <<owner, renderVars, clientVars, analyzeVars>>

\* list.txt is written and the concat reads it and the segment and writes
\* out.mp4.
ReqConcat(r) ==
    /\ reqs[r].pc = "encoded"
    /\ reqs' = [reqs EXCEPT ![r].pc = "joined"]
    /\ accesses' = accesses \cup
            {Access(r, "tmp", reqs[r].tmp, f[1], f[2], owner["tmp"][reqs[r].tmp]) :
                f \in {<<"list.txt", "write">>, <<"list.txt", "read">>,
                        <<"seg_000.mp4", "read">>, <<"out.mp4", "write">>}}
    /\ UNCHANGED <<owner, renderVars, clientVars, analyzeVars>>

\* readFileSync(out) and the cleanup block: the upload is unlinked and the
\* tmp removed, unless the call throws.
ReqFinish(r) ==
    /\ reqs[r].pc = "joined"
    /\ reqs' = [reqs EXCEPT ![r].pc = "done"]
    /\ \E unlinkOk, rmOk \in BOOLEAN :
        /\ owner' = [owner EXCEPT
                        !["upload"][reqs[r].upload] = IF unlinkOk THEN 0 ELSE @,
                        !["tmp"][reqs[r].tmp] = IF unlinkOk /\ rmOk THEN 0 ELSE @]
        /\ accesses' = accesses
                \cup {Access(r, "tmp", reqs[r].tmp, "out.mp4", "read",
                              owner["tmp"][reqs[r].tmp]),
                      Access(r, "upload", reqs[r].upload, "file", "unlink",
                             owner["upload"][reqs[r].upload])}
                \cup (IF unlinkOk
                      THEN {Access(r, "tmp", reqs[r].tmp, "", "rm",
                                   owner["tmp"][reqs[r].tmp])}
                      ELSE {})
    /\ UNCHANGED <<renderVars, clientVars, analyzeVars>>

\* A throw or a failed subprocess: the call ends and deletes nothing.
ReqThrow(r) ==
    /\ reqs[r].pc \in {"arrived", "open", "encoded"}
    /\ reqs' = [reqs EXCEPT ![r].pc = "failed"]
    /\ UNCHANGED <<owner, accesses, renderVars, clientVars, analyzeVars>>

InitConc == RenderIdle /\ ConcIdle /\ ClientIdle /\ AnalyzeIdle

NextConc ==
    \/ \E r \in Requests : ReqArrive(r)
    \/ \E r \in Requests : ReqMkdtemp(r)
    \/ \E r \in Requests : ReqEncode(r)
    \/ \E r \in Requests : ReqConcat(r)
    \/ \E r \in Requests : ReqFinish(r)
    \/ \E r \in Requests : ReqThrow(r)

SpecConc == InitConc /\ [][NextConc]_vars

\* ------------------------------------------------------- generateAllImages
\* The client's loop over the scenes of the analysis.  Time is counted in
\* seconds; a request takes any time, and a step may be late by any time.
MaxPrompts == 3

MaxClock == 6

\* sleep(2000), in seconds.
SleepSeconds == 2

\* The timer sleep(2000) starts at time t is due then.
WakeAtOnce(t) == t

\* await sleep(2000) called at time t: when its timer is due.
WakeAfter(t) == t + SleepSeconds

\* The promise sleep() returned resolves no earlier than its timer is due
\* (utils.js, setTimeout).
TimerDue(at, t) == t >= at

\* The button was pressed: if (!analysis) return; setGenBusy(true); i = 0.
StartGenerate ==
    /\ cpc = "idle"
    /\ cpc' = "loop"
    /\ ci' = 0
    /\ UNCHANGED <<now, wakeAt, sent, answered, prompts, renderVars, concVars, analyzeVars>>

\* if (!prompt) continue;
SkipScene ==
    /\ cpc = "loop"
    /\ ci < Len(prompts)
    /\ ~prompts[ci + 1]
    /\ ci' = ci + 1
    /\ UNCHANGED <<cpc, now, wakeAt, sent, answered, prompts, renderVars, concVars, analyzeVars>>

\* axios.post('/api/generate-image', ...) is sent and awaited.
SendRequest ==
    /\ cpc = "loop"
    /\ ci < Len(prompts)
    /\ prompts[ci + 1]
    /\ sent' = Append(sent, now)
    /\ cpc' = "inflight"
    /\ UNCHANGED <<ci, now, wakeAt, answered, prompts, renderVars, concVars, analyzeVars>>

\* The request completes.  A response (ok or not) is stored and the loop
\* sleeps; a rejected request (network error, status outside 2xx) goes to
\* the catch block and ends the loop.
RequestCompletes ==
    /\ cpc = "inflight"
    /\ answered' = Append(answered, now)
    /\ \E outcome \in {"ok", "not ok", "rejected"} :
        IF outcome = "rejected"
        THEN cpc' = "done" /\ UNCHANGED wakeAt
        ELSE cpc' = "sleeping" /\ wakeAt' = WakeAfter(now)
    /\ UNCHANGED <<ci, now, sent, prompts, renderVars, concVars, analyzeVars>>

\* await sleep(2000) returns; i++.
SleepReturns ==
    /\ cpc = "sleeping"
    /\ TimerDue(wakeAt, now)
    /\ ci' = ci + 1
    /\ cpc' = "loop"
    /\ UNCHANGED <<now, wakeAt, sent, answered, prompts, renderVars, concVars, analyzeVars>>

\* i < updated.scenes.length is false: finally { setGenBusy(false) }.
LoopEnds ==
    /\ cpc = "loop"
    /\ ci >= Len(prompts)
    /\ cpc' = "done"
    /\ UNCHANGED <<ci, now, wakeAt, sent, answered, prompts, renderVars, concVars, analyzeVars>>

\* A second passes.
Tick ==
    /\ now < MaxClock
    /\ now' = now + 1
    /\ UNCHANGED <<cpc, ci, wakeAt, sent, answered, prompts, renderVars, concVars, analyzeVars>>

InitClient ==
    /\ RenderIdle
    /\ ConcIdle
    /\ AnalyzeIdle
    /\ cpc = "idle"
    /\ ci = 0
    /\ now = 0
    /\ wakeAt = 0
    /\ sent = <<>>
    /\ answered = <<>>
    /\ prompts \in SeqsUpTo(BOOLEAN, MaxPrompts)

NextClient ==
    \/ StartGenerate
    \/ SkipScene
    \/ SendRequest
    \/ RequestCompletes
    \/ SleepReturns
    \/ LoopEnds
    \/ Tick

SpecClient == InitClient /\ [][NextClient]_vars

\* ------------------------------------------------------------- analyzeScript
\* POST /api/analyze-script: the body is validated, the model is asked for a
\* scene plan, and the scenes of its answer are post-processed.

\* Longest scene list the model's answer holds.
MaxModelScenes == 2

\* script: z.string().min(10)
MinScriptLen == 10

\* timingRuleSeconds: z.number().int().min(4).max(30).default(13)
MinTiming == 4
MaxTiming == 30
DefaultTiming == 13

\* z.number().int().min(4).max(30).default(13): undefined takes the default;
\* null, a string and a number with a fractional part are rejected.
TimingOk(v) ==
    \/ v.t = "undefined"
    \/ v.t = "number" /\ v.n >= MinTiming /\ v.n <= MaxTiming

\* AnalyzeReq.parse(body) does not throw.
AnalyzeReqOk(b) == b.scriptLen >= MinScriptLen /\ TimingOk(b.timingRuleSeconds)

\* The timingRuleSeconds AnalyzeReq.parse(body) returns.
ParsedTiming(b) ==
    IF b.timingRuleSeconds.t = "undefined" THEN DefaultTiming ELSE b.timingRuleSeconds.n

\* A scene of the model's answer.
ModelScene(id, dur) == [scene_id |-> id, duration_sec |-> dur]

\* Math.min(Number(s.duration_sec ?? timingRuleSeconds), timingRuleSeconds)
DurationEnforced(sc, t) ==
    MathMin(ToNumber(Coalesce(sc.duration_sec, JsNumber(t))), JsNumber(t))

\* data.scenes.map((s, idx) => ({ scene_id: Number(s.scene_id ?? (idx + 1)),
\* duration_sec: ..., ... }))
EnforceScenes(items, t) ==
    [k \in 1..Len(items) |->
        ModelScene(ToNumber(Coalesce(items[k].scene_id, JsNumber(k))),
                   DurationEnforced(items[k], t))]

\* if (Array.isArray(data.scenes)) data.scenes = ...; anything else is left
\* as the model wrote it.
EnforceTiming(d, t) ==
    IF d.scenes.kind = "array"
    THEN ModelText(d.shape, "array", EnforceScenes(d.scenes.items, t))
    ELSE d

\* JSON.stringify in res.json: NaN is written as null.
JsonValue(v) == IF v.t = "NaN" THEN JsNull ELSE v

JsonScenes(sc) ==
    [kind |-> sc.kind,
     items |-> [k \in 1..Len(sc.items) |->
                    ModelScene(JsonValue(sc.items[k].scene_id),
                               JsonValue(sc.items[k].duration_sec))]]

\* const { ..., timingRuleSeconds, ... } = AnalyzeReq.parse(body)
ParseBody ==
    /\ apc = "request"
    /\ IF AnalyzeReqOk(body)
       THEN /\ timingRuleSeconds' = ParsedTiming(body)
            /\ apc' = "generate"
       ELSE /\ apc' = "threw"
            /\ UNCHANGED timingRuleSeconds
    /\ UNCHANGED <<body, modelText, data, areply>>
    /\ UNCHANGED <<renderVars, concVars, clientVars>>

\* The durations and scene ids the model may write: none, null, numbers
\* below, at and above the rule, a number with a fractional part, a numeric
\* string and a string that is no number.
ModelDurations ==
    {JsUndefined, JsNull, JsNumber(-3), JsNumber(MinTiming), JsFraction(MinTiming),
     JsNumber(MaxTiming + 1), JsString(MaxTiming + 1), JsText}

ModelSceneIds == {JsUndefined, JsNumber(7)}

ModelTexts ==
    {ModelText("nobrace", "absent", <<>>), ModelText("badjson", "absent", <<>>),
     ModelText("object", "absent", <<>>), ModelText("object", "notarray", <<>>)}
    \cup {ModelText("object", "array", it) :
            it \in SeqsUpTo({ModelScene(id, d) : id \in ModelSceneIds, d \in ModelDurations},
                            MaxModelScenes)}

\* await model.generateContent(...): the model answers with some text, or
\* the call rejects.
GenerateContent ==
    /\ apc = "generate"
    /\ \/ /\ \E m \in ModelTexts : modelText' = m
          /\ apc' = "extract"
       \/ /\ apc' = "threw"
          /\ UNCHANGED modelText
    /\ UNCHANGED <<body, timingRuleSeconds, data, areply>>
    /\ UNCHANGED <<renderVars, concVars, clientVars>>

\* The JSON is cut out of the text and parsed, the scenes are post-processed
\* and data is returned.
PostProcess ==
    /\ apc = "extract"
    /\ IF modelText.shape = "object"
       THEN /\ data' = EnforceTiming(modelText, timingRuleSeconds)
            /\ apc' = "returned"
       ELSE /\ apc' = "threw"
            /\ UNCHANGED data
    /\ UNCHANGED <<body, timingRuleSeconds, modelText, areply>>
    /\ UNCHANGED <<renderVars, concVars, clientVars>>

\* res.json({ ok: true, data }), or res.status(400).json({ ok: false, error })
AnalyzeRespond ==
    /\ apc \in {"returned", "threw"}
    /\ areply' = IF apc = "returned"
                 THEN [status |-> 200, ok |-> TRUE, scenes |-> JsonScenes(data.scenes)]
                 ELSE [status |-> 400, ok |-> FALSE, scenes |-> NoReply.scenes]
    /\ apc' = "responded"
    /\ UNCHANGED <<body, timingRuleSeconds, modelText, data>>
    /\ UNCHANGED <<renderVars, concVars, clientVars>>

\* The bodies a client posts: a script one character short of the minimum or
\* just long enough, with no timingRuleSeconds, null, a numeric string, a
\* number with a fractional part, and integers around both limits.
AnalyzeBodies ==
    {Body(len, v) :
        len \in {MinScriptLen - 1, MinScriptLen},
        v \in {JsUndefined, JsNull, JsString(DefaultTiming), JsFraction(DefaultTiming),
               JsNumber(MinTiming - 1), JsNumber(MinTiming), JsNumber(8),
               JsNumber(DefaultTiming), JsNumber(MaxTiming), JsNumber(MaxTiming + 1)}}

InitAnalyze ==
    /\ RenderIdle
    /\ ConcIdle
    /\ ClientIdle
    /\ body \in AnalyzeBodies
    /\ apc = "request"
    /\ timingRuleSeconds = 0
    /\ modelText = NoData
    /\ data = NoData
    /\ areply = NoReply

NextAnalyze ==
    \/ ParseBody
    \/ GenerateContent
    \/ PostProcess
    \/ AnalyzeRespond

SpecAnalyze == InitAnalyze /\ [][NextAnalyze]_vars

\* ==================================================================== claims
Settled == pc \in {"settled", "responded"}

\* The scene count of the parsed manifest.
N == Len(manifest.scenes)

TmpTree(fs) == {p \in fs : p.dir = "tmp"}

UploadsLeft == fsys \cap UploadPaths(files)

IsSpawn(e, kind) == e.ev = "spawn" /\ e.kind = kind

IsExit(e, kind) == e.ev = "exit" /\ e.kind = kind

\* The manifests the specification accepts: an object with a scenes array of
\* length >= 1, every entry with a numeric duration_sec in [1, 60] and a
\* hasAudio that is absent or a boolean.
AcceptableManifest(j) ==
    /\ j.shape = "object"
    /\ Len(j.scenes) >= 1
    /\ \A k \in 1..Len(j.scenes) :
        /\ j.scenes[k].durType = "number"
        /\ j.scenes[k].duration_sec \in 1..60
        /\ j.scenes[k].hasAudio \in {"absent", "true", "false"}

\* C1: once renderMp4 has settled after allocating its temporary directory,
\* on whatever exit path, the cleanup block has run exactly once and nothing
\* is left under the temporary directory.
C1_CleanupOnEveryExit ==
    (Settled /\ tmpAllocated) => (cleanupRuns = 1 /\ TmpTree(fsys) = {})

\* C2: by the time the request has been answered, on every exit path, every
\* file multer saved for it under /tmp/uploads has been deleted.
C2_UploadsDeletedAtEnd ==
    (pc = "responded") => (UploadsLeft = {})

\* C3: a request whose manifest is valid and whose number of images differs
\* from the number of scenes never spawns a subprocess, never returns video
\* bytes, and settles with an error.
C3_CountMismatchRejectedBeforeSpawn ==
    (AcceptableManifest(manifestJson) /\ Len(files.images) # Len(manifestJson.scenes))
        => /\ events = <<>>
           /\ result.kind # "bytes"
           /\ pc \in {"parse", "mktmp", "stage", "settled", "responded"}
           /\ Settled => result.kind = "error"

\* C3 witness: a valid manifest of two scenes with three images, refused by
\* the count check after the temporary directory was made.
C3_Witness ==
    /\ pc = "responded"
    /\ AcceptableManifest(manifestJson)
    /\ Len(manifestJson.scenes) = 2
    /\ Len(files.images) = 3
    /\ result.err.step = "count"
    /\ tmpAllocated

\* C4: once the manifest has been looked at, a manifest that is not
\* acceptable has been rejected with the validation error, with no subprocess
\* spawned and no temporary directory made; and a manifest that got past the
\* validation is acceptable and was parsed with hasAudio defaulting to false.
C4_ManifestGate ==
    (pc # "parse") =>
        /\ ~AcceptableManifest(manifestJson) =>
                /\ result = Rejected(Err("manifest", -1, 0))
                /\ events = <<>>
                /\ ~tmpAllocated
                /\ TmpTree(fsys) = {}
        /\ AcceptableManifest(manifestJson) =>
                /\ result.err.step # "manifest"
                /\ Len(manifest.scenes) = Len(manifestJson.scenes)
                /\ \A k \in 1..Len(manifestJson.scenes) :
                    /\ manifest.scenes[k].duration_sec = manifestJson.scenes[k].duration_sec
                    /\ manifest.scenes[k].hasAudio = (manifestJson.scenes[k].hasAudio = "true")

\* C4 witness: a manifest whose first scene is fine and whose second scene
\* lasts 61 seconds has been rejected and the request answered.
C4_Witness ==
    /\ pc = "responded"
    /\ manifestJson.shape = "object"
    /\ Len(manifestJson.scenes) = 2
    /\ DurationOk(manifestJson.scenes[1])
    /\ manifestJson.scenes[2].durType = "number"
    /\ manifestJson.scenes[2].duration_sec = 61
    /\ result.err.step = "manifest"
    /\ Len(files.images) = 2

\* C5: a subprocess exit with a non-zero code is the last subprocess event of
\* the request (no later scene is encoded, nothing is retried, no concat is
\* spawned after a failed encode), the render has failed with that exit's
\* error and never returns bytes; and no scene's encoder and no concat is
\* spawned twice.
C5_FailureIsFatal ==
    /\ \A k \in 1..Len(events) :
        (events[k].ev = "exit" /\ events[k].code # 0) =>
            /\ k = Len(events)
            /\ result = Rejected(Err(events[k].kind, events[k].scene, events[k].code))
    /\ \A k, l \in 1..Len(events) :
        (/\ events[k].ev = "spawn" /\ events[l].ev = "spawn"
         /\ events[k].kind = events[l].kind /\ events[k].scene = events[l].scene)
            => k = l

\* C5 witness: the encoder of scene 0 of a two-scene render exited non-zero
\* and the request has been answered.
C5_Witness ==
    /\ pc = "responded"
    /\ N = 2
    /\ Len(events) = 2
    /\ events[2] = ExitEv("encode", 0, 1)
    /\ result.kind = "error"

\* The subprocess events of a render of n scenes in which every subprocess
\* exited 0, reduced to (ev, kind, scene, code).
Shape(e) == <<e.ev, e.kind, e.scene, e.code>>

SuccessShape(n) ==
    [k \in 1..(2 * n + 2) |->
        IF k = 2 * n + 1 THEN <<"spawn", "concat", -1, 0>>
        ELSE IF k = 2 * n + 2 THEN <<"exit", "concat", -1, 0>>
        ELSE IF k % 2 = 1 THEN <<"spawn", "encode", (k - 1) \div 2, 0>>
        ELSE <<"exit", "encode", (k - 2) \div 2, 0>>]

EventShapes == [k \in 1..Len(events) |-> Shape(events[k])]

\* The first step of the pipeline that failed, read off the request and the
\* history: the manifest check, the allocation of the workspace, the image
\* count check, a scene's encode, the concat.
FirstFailure ==
    IF ~AcceptableManifest(manifestJson) THEN Err("manifest", -1, 0)
    ELSE IF ~tmpAllocated THEN Err("staging", -1, 0)
    ELSE IF Len(files.images) # Len(manifestJson.scenes) THEN Err("count", -1, 0)
    ELSE IF \E k \in 1..Len(events) : events[k].ev = "exit" /\ events[k].code # 0
         THEN LET k == Min({x \in 1..Len(events) :
                                events[x].ev = "exit" /\ events[x].code # 0})
              IN  Err(events[k].kind, events[k].scene, events[k].code)
    ELSE NoErr

C7_SequentialEncodes ==
    /\ \A k \in 1..Len(events) :
        /\ IsSpawn(events[k], "encode") =>
                IF events[k].scene = 0 THEN k = 1
                ELSE k > 1 /\ events[k - 1] = ExitEv("encode", events[k].scene - 1, 0)
        /\ IsSpawn(events[k], "concat") =>
                /\ k = 2 * N + 1
                /\ events[k - 1] = ExitEv("encode", N - 1, 0)
        /\ events[k].ev = "exit" =>
                /\ k > 1
                /\ events[k - 1].ev = "spawn"
                /\ events[k - 1].kind = events[k].kind
                /\ events[k - 1].scene = events[k].scene
    /\ result.kind = "bytes" => EventShapes = SuccessShape(N)

\* C7 witness: a two-scene render returned bytes.
C7_Witness ==
    /\ result.kind = "bytes"
    /\ N = 2
    /\ Len(events) = 6

\* C8: every encoder is spawned for scene s with the s-th image of the
\* staged (sorted) image sequence, the s-th manifest entry's duration and
\* the s-th segment path as its output; the list file handed to the concat
\* names the segments 0..N-1 in index order, each exactly once.
C8_SceneOrderPreserved ==
    \A k \in 1..Len(events) :
        /\ IsSpawn(events[k], "encode") =>
                LET s == events[k].scene
                IN  /\ s \in 0..(N - 1)
                    /\ events[k].img = images[s + 1].path
                    /\ events[k].dur = manifestJson.scenes[s + 1].duration_sec
                    /\ events[k].out = SegPath(s)
        /\ IsSpawn(events[k], "concat") =>
                /\ events[k].list = [s \in 1..N |-> SegPath(s - 1)]
                /\ listContents = events[k].list

\* C8 witness: a two-scene render whose two images arrived in the opposite
\* of their sorted order, and whose scenes differ in duration, reached the
\* concat.
C8_Witness ==
    /\ N = 2
    /\ Len(events) >= 5
    /\ IsSpawn(events[5], "concat")
    /\ files.images[1].originalname = NameB0
    /\ files.images[2].originalname = NameA1
    /\ manifest.scenes[1].duration_sec # manifest.scenes[2].duration_sec

\* Both sorts have run.
Staged ==
    \/ pc \in {"loop", "encoding", "concat", "read"}
    \/ Settled /\ result.err.step \notin {"manifest", "staging"}

NamesOf(fs) == [k \in 1..Len(fs) |-> fs[k].originalname]

NameSet(fs) == {fs[k].originalname : k \in 1..Len(fs)}

ByteSorted(fs) ==
    \A k \in 1..(Len(fs) - 1) : ByteCompare(fs[k].originalname, fs[k + 1].originalname) <= 0

LocaleSorted(fs) ==
    \A k \in 1..(Len(fs) - 1) : localeCompare(fs[k].originalname, fs[k + 1].originalname) <= 0

\* The names of a set, least first under localeCompare: a function of the
\* set alone.
RECURSIVE LocaleOrderOf(_)
LocaleOrderOf(S) ==
    IF S = {} THEN <<>>
    ELSE LET m == CHOOSE x \in S : \A y \in S : localeCompare(x, y) <= 0
         IN  <<m>> \o LocaleOrderOf(S \ {m})

\* staged holds the files of arrived, each once.
SameFiles(staged, arrived) ==
    /\ Len(staged) = Len(arrived)
    /\ {staged[k] : k \in 1..Len(staged)} = {arrived[k] : k \in 1..Len(arrived)}

\* Files whose names compare equal keep their arrival order (the upload
\* path's index is the arrival position).
KeepsArrivalOrderOfEquals(staged) ==
    \A k, l \in 1..Len(staged) :
        (k < l /\ localeCompare(staged[k].originalname, staged[l].originalname) = 0)
            => staged[k].path.idx < staged[l].path.idx

StagedByLocale(staged, arrived) ==
    /\ SameFiles(staged, arrived)
    /\ LocaleSorted(staged)
    /\ KeepsArrivalOrderOfEquals(staged)
    /\ (Cardinality(NameSet(arrived)) = Len(arrived))
            => NamesOf(staged) = LocaleOrderOf(NameSet(arrived))

C10_SilentWithoutAudioFlag ==
    \A k \in 1..Len(events) :
        (IsSpawn(events[k], "encode") /\ ~manifest.scenes[events[k].scene + 1].hasAudio)
            => (events[k].audio = NoPath /\ ~events[k].shortest)

\* C11: every encoder spawned for a scene whose manifest entry has
\* hasAudio = true is given an audio input, and its segment lasts
\* min(duration_sec, length of that audio).
C11_AudioWhenFlagged ==
    \A k \in 1..Len(events) :
        (IsSpawn(events[k], "encode") /\ manifest.scenes[events[k].scene + 1].hasAudio)
            => /\ events[k].audio # NoPath
               /\ events[k].shortest
               /\ SegmentSeconds(events[k])
                    = Min({manifest.scenes[events[k].scene + 1].duration_sec,
                           AudioSeconds(AudioAt(events[k].audio))})

\* C12: when fewer audio files than scenes were uploaded (K < N), every
\* encoder of a scene s < K is given the s-th staged audio and -shortest,
\* every encoder of a scene s >= K is given no audio input and its segment
\* lasts the requested duration; the render fails only for a reason that
\* has nothing to do with the audios (the first failing step among manifest,
\* workspace, image count, subprocess exit) and returns bytes when there is
\* none.
C12_FewerAudiosTolerated ==
    (Len(files.audios) < Len(manifestJson.scenes)) =>
        /\ \A k \in 1..Len(events) :
            IsSpawn(events[k], "encode") =>
                LET s == events[k].scene
                IN  IF s < Len(files.audios)
                    THEN /\ events[k].audio = audios[s + 1].path
                         /\ events[k].shortest
                    ELSE /\ events[k].audio = NoPath
                         /\ ~events[k].shortest
                         /\ SegmentSeconds(events[k])
                                = manifestJson.scenes[s + 1].duration_sec
        /\ result.kind = "error" => result.err = FirstFailure
        /\ (Settled /\ FirstFailure = NoErr) => result.kind = "bytes"

\* C12 witness: a two-scene render with one audio returned bytes; scene 0
\* was encoded with the audio, scene 1 without.
C12_Witness ==
    /\ result.kind = "bytes"
    /\ N = 2
    /\ Len(files.audios) = 1
    /\ events[1].audio = audios[1].path
    /\ events[3].audio = NoPath
    /\ SegmentSeconds(events[3]) = manifest.scenes[2].duration_sec

\* The cleanup block ran and left behind something it had to delete: one of
\* its unlinkSync calls, or its rmSync, threw.
CleanupThrew == cleanupRuns >= 1 /\ (UploadsLeft # {} \/ TmpTree(fsys) # {})

\* C13: a cleanup that threw leaves the render a success (renderMp4 returned
\* the bytes and the caller is sent the video); a failed render carries the
\* error of the first failing step, which is never a cleanup error, and no
\* response carries a cleanup error.
C13_CleanupFailureIsSilent ==
    /\ CleanupThrew =>
            /\ result = Bytes
            /\ pc = "responded" => (responses[1].ok /\ responses[1].type = "video/mp4")
    /\ result.kind = "error" =>
            (result.err = FirstFailure /\ result.err.step # "cleanup")
    /\ \A k \in 1..Len(responses) : responses[k].err.step # "cleanup"

\* C13 witness: a two-scene render succeeded, an unlinkSync of its cleanup
\* threw (uploads and the temporary tree are still there), and the caller
\* was sent the video.
C13_Witness ==
    /\ pc = "responded"
    /\ N = 2
    /\ cleanupRuns = 1
    /\ UploadsLeft # {}
    /\ TmpTree(fsys) # {}
    /\ responses[1].ok

\* No step of the request remains: it was answered, or the process ended.
Ended == pc \in {"responded", "crashed"}

\* C14: when the encoder of the first scene cannot be spawned, the request
\* ends with renderMp4 rejected, the caller answered with an error, no
\* concat spawned and nothing left under the temporary directory.
C14_SpawnFailureRejects ==
    (Ended /\ Len(events) >= 2 /\ events[2] = ErrorEv("encode", 0)) =>
        /\ result.kind = "error"
        /\ Len(responses) = 1
        /\ ~responses[1].ok
        /\ \A k \in 1..Len(events) : ~IsSpawn(events[k], "concat")
        /\ TmpTree(fsys) = {}

\* C15: every request gets exactly one response (never two, and one once no
\* step of the request remains); the response is the video, with
\* Content-Type video/mp4 and the attachment name creator-station.mp4,
\* exactly when renderMp4 returned, and otherwise the structured error
\* {ok: false, error} with a 4xx status.
C15_ExactlyOneResponse ==
    /\ Len(responses) <= 1
    /\ Ended => Len(responses) = 1
    /\ \A k \in 1..Len(responses) :
        LET r == responses[k]
        IN  /\ r.ok = (result.kind = "bytes")
            /\ r.ok => /\ r.type = "video/mp4"
                       /\ r.attachment = "creator-station.mp4"
                       /\ r.error = NoMessage
            /\ ~r.ok => /\ result.kind = "error"
                        /\ r.status \in 400..499
                        /\ r.type = "application/json"
                        /\ r.attachment = ""

\* C16: nothing of a child's stderr reaches the caller: the error message
\* of every response carries no diagnostic note and no file name, so it is
\* the same whatever the child wrote.
C16_StderrNotDisclosed ==
    \A k \in 1..Len(responses) :
        /\ responses[k].error.stderr.note = ""
        /\ responses[k].error.stderr.names = {}

\* A request that holds a temporary directory and has steps left.
Live(r) == reqs[r].pc \in {"open", "encoded", "joined"}

\* C17: in every interleaving of the requests, two live requests never hold
\* the same temporary directory, the directory a live request holds was
\* made for it, and every file a request has read, written or deleted (its
\* upload, a segment, list.txt, out.mp4, the directory itself) belonged to
\* that request when it was touched.
C17_WorkspacesIsolated ==
    /\ \A r, q \in Requests :
            (Live(r) /\ Live(q) /\ r # q) => reqs[r].tmp # reqs[q].tmp
    /\ \A r \in Requests : Live(r) => owner["tmp"][reqs[r].tmp] = r
    /\ \A a \in accesses : a.owner = a.req

\* C17 witness: two requests are between their encode and their concat at
\* the same time, each having written its segment.
C17_Witness ==
    /\ reqs[1].pc = "encoded"
    /\ reqs[2].pc = "encoded"
    /\ \A r \in {1, 2} :
            Access(r, "tmp", reqs[r].tmp, "seg_000.mp4", "write", r) \in accesses

\* The playing time of the segments the encoders of evts were spawned for.
RECURSIVE TotalSeconds(_)
TotalSeconds(evts) ==
    IF evts = <<>> THEN 0
    ELSE (IF IsSpawn(evts[1], "encode") THEN SegmentSeconds(evts[1]) ELSE 0)
            + TotalSeconds(Tail(evts))

\* Up to their k-th events the two calls saw the same subprocess outcomes.
SameOutcomesBefore(k) ==
    \A j \in 1..(k - 1) :
        (j <= Len(prev.events) /\ prev.events[j].ev # "spawn")
            => prev.events[j] = events[j]

\* C18: in a second call of renderMp4 with the same files and manifest,
\* every subprocess spawned after the same subprocess outcomes as in the
\* first call is spawned with the same arguments (scene, image, audio,
\* duration, output, list); and when both calls returned bytes they spawned
\* the same encoders and concat, made the same segments, one per scene, of
\* the same total playing time.
C18_SameInputsSameAssignment ==
    prev.ran =>
        /\ \A k \in 1..Len(events) :
            (/\ k <= Len(prev.events)
             /\ events[k].ev = "spawn"
             /\ SameOutcomesBefore(k))
                => events[k] = prev.events[k]
        /\ (result.kind = "bytes" /\ prev.result.kind = "bytes") =>
                /\ events = prev.events
                /\ segmentFiles = prev.segmentFiles
                /\ Len(segmentFiles) = Len(manifestJson.scenes)
                /\ TotalSeconds(events) = TotalSeconds(prev.events)

\* C18 witness: both calls of a two-scene render returned bytes; the two
\* images have the same name and there is one audio, so the first scene
\* has sound and the second has none.
C18_Witness ==
    /\ prev.ran
    /\ prev.result.kind = "bytes"
    /\ result.kind = "bytes"
    /\ N = 2
    /\ files.images[1].originalname = files.images[2].originalname
    /\ Len(files.audios) = 1
    /\ TotalSeconds(events) > 0

\* C19: during generateAllImages at most one /api/generate-image request is
\* in flight, every request but the first is sent at least 2 seconds after
\* the one before it completed, and so at least 2 seconds after the one
\* before it was sent.
C19_OneImageRequestPerTwoSeconds ==
    /\ Len(sent) - Len(answered) \in {0, 1}
    /\ (cpc = "inflight") = (Len(sent) = Len(answered) + 1)
    /\ \A k \in 2..Len(sent) :
        /\ k - 1 <= Len(answered)
        /\ sent[k] >= answered[k - 1] + 2
        /\ sent[k] >= sent[k - 1] + 2

\* C19 witness: the second request went out exactly 2 seconds after the
\* first, which took a second, completed; a scene without a prompt lies
\* between them.
C19_Witness ==
    /\ Len(sent) = 2
    /\ answered[1] = sent[1] + 1
    /\ sent[2] = answered[1] + 2
    /\ prompts = <<TRUE, FALSE, TRUE>>

\* renderMp4 awaits a child.
Waiting == pc \in {"encoding", "concat"}

\* The child renderMp4 awaited has exited: its 'close' is the last event.
Closed == events # <<>> /\ events[Len(events)].ev = "exit"

\* Every spawned subprocess eventually exits.
ChildrenExit == Waiting ~> Closed

\* How far the request has come: the stages in program order, the scene
\* loop counted per scene.
StageRank ==
    CASE pc = "parse" -> 0
      [] pc = "mktmp" -> 1
      [] pc = "stage" -> 2
      [] pc = "loop" -> 3 + 2 * i
      [] pc = "encoding" -> 4 + 2 * i
      [] pc = "concat" -> 5 + 2 * N
      [] pc = "read" -> 6 + 2 * N
      [] pc = "settled" -> 7 + 2 * N
      [] pc = "responded" -> 8 + 2 * N
      [] pc = "crashed" -> 9 + 2 * N

\* C20: if every spawned subprocess eventually exits, renderMp4 eventually
\* settles, with the bytes or with the error of the first failing step;
\* while it awaits a child nothing but an event of that child moves it (no
\* timeout, no cancellation), so it stays pending as long as the child
\* runs; and every step takes the request forward, never back to an
\* earlier stage or scene.
C20_SettlesIfChildrenExit ==
    /\ ChildrenExit =>
            <>(Settled /\ (result.kind = "bytes" \/ result.err = FirstFailure))
    /\ [][Waiting => /\ events' # events
                     /\ events'[Len(events')].ev \in {"exit", "error"}
                     /\ result' = Pending \/ events'[Len(events')].code # 0]_vars
    /\ [][StageRank' > StageRank]_vars

\* C20 witness: a two-scene render settled with the error of its concat,
\* after three subprocesses had exited.
C20_Witness ==
    /\ pc = "settled"
    /\ N = 2
    /\ Len(events) = 6
    /\ result = Rejected(Err("concat", -1, 1))

\* C22: when the cleanup block of a successful render had an unlinkSync
\* fail (and no rmSync fail), every uploaded file other than the ones whose
\* unlinkSync failed is gone and nothing is left under the temporary
\* directory.
C22_UnlinkFailureDoesNotStopCleanup ==
    LET failed(op) == {cleanupLog[k].path :
                            k \in {x \in 1..Len(cleanupLog) :
                                        cleanupLog[x].op = op /\ ~cleanupLog[x].ok}}
    IN  (result = Bytes /\ failed("unlinkSync") # {} /\ failed("rmSync") = {}) =>
            /\ UploadsLeft \subseteq failed("unlinkSync")
            /\ TmpTree(fsys) = {}

\* The upload of the audio the client made for scene s (0-based).
AudioUploadOf(s) ==
    {f.path : f \in {files.audios[k] : k \in 1..Len(files.audios)} \cap
                    {g \in {files.audios[k] : k \in 1..Len(files.audios)} :
                        g.originalname = SceneFileName(s, ExtMp3)}}

\* C21: in a request built by exportMp4, every encoder spawned for scene s
\* is given the audio the client uploaded for scene s when the scene has
\* audio, and no audio input when the scene has none.
C21_SceneGetsItsOwnAudio ==
    \A k \in 1..Len(events) :
        (events[k].ev = "spawn" /\ events[k].kind = "encode") =>
            IF analysis.scenes[events[k].scene + 1].audioBase64
            THEN {events[k].audio} = AudioUploadOf(events[k].scene)
            ELSE events[k].audio = NoPath

\* C23: every request exportMp4 sends passes the server's precondition
\* checks: the manifest decodes to an object whose scenes list is non-empty,
\* every duration_sec is a number between 1 and 60, and there are as many
\* uploaded images as scenes.
C23_ExportedRequestAccepted ==
    (analysis.present /\ pc \notin {"export", "unsent"}) =>
        /\ manifestJson.shape = "object"
        /\ Len(manifestJson.scenes) >= 1
        /\ \A k \in 1..Len(manifestJson.scenes) :
                /\ manifestJson.scenes[k].durType = "number"
                /\ manifestJson.scenes[k].duration_sec >= 1
                /\ manifestJson.scenes[k].duration_sec <= 60
        /\ Len(files.images) = Len(manifestJson.scenes)

\* C24: analyzeScript goes on only with a body whose timingRuleSeconds is
\* absent (then 13 is used) or an integer between 4 and 30 (then it is
\* used); and every scene analyzeScript returns has a duration_sec that is
\* a number not above timingRuleSeconds, equal to timingRuleSeconds when the
\* model gave the scene no duration, and a scene_id equal to the scene's
\* 1-based position when the model gave it none.
C24_TimingRuleEnforced ==
    /\ apc \in {"generate", "extract", "returned"} =>
            \/ body.timingRuleSeconds.t = "undefined" /\ timingRuleSeconds = 13
            \/ /\ body.timingRuleSeconds.t = "number"
               /\ body.timingRuleSeconds.n \in 4..30
               /\ timingRuleSeconds = body.timingRuleSeconds.n
    /\ (apc = "returned" /\ data.scenes.kind = "array") =>
            \A k \in 1..Len(data.scenes.items) :
                LET out == data.scenes.items[k]
                    in == modelText.scenes.items[k]
                IN  /\ out.duration_sec.t \in {"number", "fraction"}
                    /\ 2 * out.duration_sec.n < 2 * timingRuleSeconds + 1
                    /\ in.duration_sec.t = "undefined" =>
                            out.duration_sec = [t |-> "number", n |-> timingRuleSeconds]
                    /\ in.scene_id.t = "undefined" =>
                            out.scene_id = [t |-> "number", n |-> k]

====
